---- MODULE Spec2Model ----
(***************************************************************************)
(* Model of withdrawal-web-interface/server.py: the WebHandler request     *)
(* handler (do_GET, do_POST, handle_generate_proof, handle_verify_proof,   *)
(* handle_health) run by the single-threaded socketserver.TCPServer that   *)
(* main() starts.  Clients submit requests concurrently; the server        *)
(* accepts one connection at a time and runs its handler to completion.    *)
(***************************************************************************)
EXTENDS Integers, Sequences, FiniteSets, TLC

\* ------------------------------------------------------------------ bounds
NClients == 2
MaxVal == 1

Clients == 1..NClients

\* ------------------------------------------------------- JSON wire values
\* A JSON value is [k, n]: k its kind, n the integer it carries.
\*   int    the JSON integer n
\*   str    the JSON string holding the decimal digits of n      ("1")
\*   float  the JSON number n + 0.5                              (1.5)
\*   text   a JSON string that is no number; n tells two apart  ("abc")
\*   proof  a JSON object (a proof artifact); n tells two apart
\*   absent the key is not in the object
JInt(n) == [k |-> "int", n |-> n]
JStr(n) == [k |-> "str", n |-> n]
JFloat(n) == [k |-> "float", n |-> n]
JText(n) == [k |-> "text", n |-> n]
JProof(n) == [k |-> "proof", n |-> n]
Absent == [k |-> "absent", n |-> 0]

required_fields ==
    <<"user_address", "pool_id", "user_balance", "withdrawal_amount", "pool_liquidity">>

NumericFields == {"pool_id", "user_balance", "withdrawal_amount", "pool_liquidity"}

\* The decoded body of a request: kind says what json.loads makes of it,
\* f holds the keys of a JSON object.
Obj(ua, pid, bal, amt, liq, pd) ==
    [kind |-> "object",
     f |-> [user_address |-> ua, pool_id |-> pid, user_balance |-> bal,
            withdrawal_amount |-> amt, pool_liquidity |-> liq, proof_data |-> pd]]

NoFields == Obj(Absent, Absent, Absent, Absent, Absent, Absent).f

\* array: the JSON list [];  scalar: a JSON number;  notjson: bytes json.loads
\* rejects;  nolength: the request has no Content-Length header;  none: no body.
Raw(kind) == [kind |-> kind, f |-> NoFields]

\* int(x) of Python on a decoded JSON value.
PyInt(v) ==
    CASE v.k = "int" -> [ok |-> TRUE, n |-> v.n, exc |-> ""]
      [] v.k = "str" -> [ok |-> TRUE, n |-> v.n, exc |-> ""]
      [] v.k = "float" -> [ok |-> TRUE, n |-> v.n, exc |-> ""]
      [] v.k = "text" -> [ok |-> FALSE, n |-> 0, exc |-> "ValueError"]
      [] v.k = "absent" -> [ok |-> FALSE, n |-> 0, exc |-> "KeyError"]
      [] OTHER -> [ok |-> FALSE, n |-> 0, exc |-> "TypeError"]

\* ---------------------------------------------------------------- requests
\* brk: when the client's connection breaks.  "never": every write succeeds;
\* "afterHead": the first write (status line and headers) succeeds and every
\* later one raises BrokenPipeError;  "atOnce": every write raises.
Breaks == {"never", "afterHead", "atOnce"}

Req(method, path, body, brk) ==
    [method |-> method, path |-> path, body |-> body, brk |-> brk]

NoReq == Req("", "", Raw("none"), "never")

Vals == {JInt(n) : n \in -1..MaxVal} \cup {JStr(1), JFloat(1), JText(0)}
FieldVals == Vals \cup {Absent}
Addrs == {JText(1), JText(2)}

GenBodies ==
    {Obj(ua, pid, bal, amt, liq, Absent) :
        ua \in Addrs \cup {Absent}, pid \in FieldVals, bal \in FieldVals,
        amt \in FieldVals, liq \in FieldVals}
    \cup {Raw("array"), Raw("scalar"), Raw("notjson"), Raw("nolength")}

VerBodies ==
    {Obj(Absent, Absent, Absent, Absent, Absent, pd) :
        pd \in {Absent, JProof(1), JProof(2)}}
    \cup {Raw("array"), Raw("scalar"), Raw("notjson"), Raw("nolength")}

GetPaths == {"/", "/index.html", "/api/health", "/api/generate-proof", "/nope"}

\* Every request of the sequential workload.
Requests ==
    {Req("GET", p, Raw("none"), b) : p \in GetPaths, b \in Breaks}
    \cup {Req("POST", p, Raw("none"), b) : p \in {"/api/health", "/nope"}, b \in Breaks}
    \cup {Req("POST", "/api/verify-proof", d, b) : d \in VerBodies, b \in Breaks}
    \cup {Req("POST", "/api/generate-proof", d, b) : d \in GenBodies, b \in Breaks}

GenReq(ua, pid, bal, amt, liq, b) ==
    Req("POST", "/api/generate-proof", Obj(ua, pid, bal, amt, liq, Absent), b)

VerReq(pd, b) ==
    Req("POST", "/api/verify-proof", Obj(Absent, Absent, Absent, Absent, Absent, pd), b)

\* The requests of the concurrent workload: at least one for every route and
\* every outcome of the handlers.
ConcRequests ==
    {GenReq(JText(1), JInt(0), JInt(MaxVal), JInt(0), JInt(MaxVal), "never"),
     GenReq(JText(2), JInt(MaxVal), JInt(MaxVal), JInt(MaxVal), JInt(MaxVal), "never"),
     GenReq(JText(1), JInt(0), JInt(0), JInt(MaxVal), JInt(MaxVal), "never"),
     GenReq(JText(2), JInt(MaxVal), JInt(MaxVal), JInt(0), JInt(0), "afterHead"),
     GenReq(JText(1), JInt(0), Absent, JInt(0), JInt(0), "never"),
     Req("POST", "/api/generate-proof", Raw("notjson"), "never"),
     VerReq(JProof(1), "never"),
     VerReq(JProof(1), "afterHead"),
     VerReq(Absent, "never"),
     Req("POST", "/api/health", Raw("none"), "never"),
     Req("POST", "/nope", Raw("none"), "never"),
     Req("GET", "/api/health", Raw("none"), "never")}

\* --------------------------------------------------------------- responses
NoArt ==
    [user_address |-> Absent, pool_id |-> 0, user_balance |-> 0,
     withdrawal_amount |-> 0, pool_liquidity |-> 0, origin |-> "none"]

\* One write to the socket: the status line with its headers (t = "head") or
\* a body (t = "body").  why is the reason phrase, keys the top-level keys of
\* a JSON body; success is the value of its "success" key, which the code
\* only ever writes as True.
Chunk(t, code, why, ctype, keys, art, echo, valid, status) ==
    [t |-> t, code |-> code, why |-> why, ctype |-> ctype, keys |-> keys,
     success |-> "success" \in keys, art |-> art, echo |-> echo, valid |-> valid,
     status |-> status]

HeadChunk(code, why, ctype) ==
    Chunk("head", code, why, ctype, {}, NoArt, Absent, FALSE, "")


\* What the client gets of `chunks`, written one after the other on a
\* connection that has delivered w so far: a write on a broken connection
\* raises BrokenPipeError and nothing later is delivered.
WriteAll(w, brk, chunks) ==
    LET n == IF brk = "never" THEN Len(chunks)
             ELSE IF brk = "afterHead" /\ Len(w) = 0 /\ Len(chunks) > 0 THEN 1
             ELSE 0
    IN [wire |-> w \o SubSeq(chunks, 1, n), ok |-> n = Len(chunks)]

\* send_error(code, message): the status line, then an HTML page.
SendError(w, brk, code, why) ==
    WriteAll(w, brk,
             <<HeadChunk(code, why, "html"),
               Chunk("body", code, why, "html", {}, NoArt, Absent, FALSE, "")>>)

\* send_response(200) with the JSON headers, then json.dumps(payload).
SendJson(w, brk, keys, art, echo, valid, status) ==
    WriteAll(w, brk,
             <<HeadChunk(200, <<"OK">>, "json"),
               Chunk("body", 0, <<>>, "json", keys, art, echo, valid, status)>>)

\* The files of the directory main() changes into.
StaticFiles == {"/index.html", "/server.py"}

\* ------------------------------------------------------------------- state
VARIABLES
    conn,       \* per client: st (idle, queued, serving, answered), req, wire
    queue,      \* the connections the server has not accepted yet, in order
    cur,        \* the client whose request the server is handling, or 0
    pc,         \* where the handler of cur stands
    data,       \* the handler's local `data`
    art,        \* the handler's local `proof_data`
    exc,        \* the exception the handler's try block raised
    emitted,    \* the status codes the handler passed to send_response
    seen,       \* the dependencies' reachability when the handler answered
    engineUp,   \* the proof engine is reachable
    verifierUp  \* the verifier is reachable

vars == <<conn, queue, cur, pc, data, art, exc, emitted, seen, engineUp, verifierUp>>

env == <<engineUp, verifierUp>>

IdleConn == [st |-> "idle", req |-> NoReq, wire |-> <<>>]

NoBody == Raw("none")

NotSeen == [engine |-> TRUE, verifier |-> TRUE, at |-> FALSE]

Init ==
    /\ conn = [c \in Clients |-> IdleConn]
    /\ queue = <<>>
    /\ cur = 0
    /\ pc = "Idle"
    /\ data = NoBody
    /\ art = NoArt
    /\ exc = ""
    /\ emitted = <<>>
    /\ seen = NotSeen
    /\ engineUp = TRUE
    /\ verifierUp = TRUE

handler == <<cur, pc, data, art, exc, emitted, seen>>

\* ----------------------------------------------------------------- clients
Enqueue(c, r) ==
    /\ conn[c].st = "idle"
    /\ conn' = [conn EXCEPT ![c] = [st |-> "queued", req |-> r, wire |-> <<>>]]
    /\ queue' = Append(queue, c)
    /\ UNCHANGED <<handler, env>>

\* A client of the concurrent workload connects and sends its request.
Submit(c) == \E r \in ConcRequests : Enqueue(c, r)

\* A client of the sequential workload: no other connection is open.
SubmitAlone(c) ==
    /\ \A d \in Clients : conn[d].st = "idle"
    /\ \E r \in Requests : Enqueue(c, r)

\* The client has read what the server sent and the connection is gone.
Collect(c) ==
    /\ conn[c].st = "answered"
    /\ conn' = [conn EXCEPT ![c] = IdleConn]
    /\ UNCHANGED <<queue, handler, env>>

EngineFlip ==
    /\ engineUp' = ~engineUp
    /\ UNCHANGED <<conn, queue, handler, verifierUp>>

VerifierFlip ==
    /\ verifierUp' = ~verifierUp
    /\ UNCHANGED <<conn, queue, handler, engineUp>>

\* ------------------------------------------------------------------ server
\* serve_forever: the next connection gets a fresh WebHandler.
Accept ==
    /\ cur = 0
    /\ queue # <<>>
    /\ cur' = Head(queue)
    /\ queue' = Tail(queue)
    /\ conn' = [conn EXCEPT ![Head(queue)].st = "serving"]
    /\ pc' = "Received"
    /\ data' = NoBody
    /\ art' = NoArt
    /\ exc' = ""
    /\ emitted' = <<>>
    /\ seen' = NotSeen
    /\ UNCHANGED env

\* The handler returned, or an exception left it: the connection is closed.
Finish ==
    /\ cur # 0
    /\ pc = "Done"
    /\ conn' = [conn EXCEPT ![cur].st = "answered"]
    /\ cur' = 0
    /\ pc' = "Idle"
    /\ data' = NoBody
    /\ art' = NoArt
    /\ exc' = ""
    /\ emitted' = <<>>
    /\ seen' = NotSeen
    /\ UNCHANGED <<queue, env>>

Serving(method, path, at) ==
    /\ cur # 0
    /\ pc = at
    /\ conn[cur].req.method = method
    /\ conn[cur].req.path = path

\* The handler writes `sent` (the result of WriteAll) as its whole answer,
\* having passed `code` to send_response; a failed write ends it too when
\* nothing catches the exception.
Answer(sent, code, next) ==
    /\ conn' = [conn EXCEPT ![cur].wire = sent.wire]
    /\ emitted' = Append(emitted, code)
    /\ pc' = next

\* do_GET: static file serving by SimpleHTTPRequestHandler.
DoGET ==
    /\ cur # 0
    /\ pc = "Received"
    /\ conn[cur].req.method = "GET"
    /\ LET r == conn[cur].req
           path == IF r.path = "/" THEN "/index.html" ELSE r.path
           w == conn[cur].wire
       IN IF path \in StaticFiles
          THEN Answer(WriteAll(w, r.brk,
                               <<HeadChunk(200, <<"OK">>, "file"),
                                 Chunk("body", 0, <<path>>, "file", {}, NoArt,
                                       Absent, FALSE, "")>>),
                      200, "Done")
          ELSE Answer(SendError(w, r.brk, 404, <<"File not found">>), 404, "Done")
    /\ UNCHANGED <<queue, cur, data, art, exc, seen, env>>

\* do_POST, last branch.
PostNotFound ==
    /\ cur # 0
    /\ pc = "Received"
    /\ conn[cur].req.method = "POST"
    /\ conn[cur].req.path \notin {"/api/generate-proof", "/api/verify-proof", "/api/health"}
    /\ Answer(SendError(conn[cur].wire, conn[cur].req.brk, 404, <<"Not Found">>),
              404, "Done")
    /\ UNCHANGED <<queue, cur, data, art, exc, seen, env>>

\* handle_health.
HealthStatus == "healthy"

HandleHealth ==
    /\ Serving("POST", "/api/health", "Received")
    /\ Answer(SendJson(conn[cur].wire, conn[cur].req.brk,
                       {"status", "timestamp", "version"}, NoArt, Absent, FALSE,
                       HealthStatus),
              200, "Done")
    /\ seen' = [engine |-> engineUp, verifier |-> verifierUp, at |-> TRUE]
    /\ UNCHANGED <<queue, cur, data, art, exc, env>>


\* FirstMissing with a loop that stops one field early.
RECURSIVE FirstMissingSkipsLast(_, _, _)
FirstMissingSkipsLast(d, fields, i) ==
    IF i >= Len(fields) THEN ""
    ELSE IF d.kind = "array" \/ d.f[fields[i]] = Absent THEN fields[i]
    ELSE FirstMissingSkipsLast(d, fields, i + 1)

\* The first name of required_fields that the decoded body does not hold;
\* `field not in data` of a list looks for an element, and [] has none.
RECURSIVE FirstMissing(_, _, _)
FirstMissing(d, fields, i) ==
    IF i > Len(fields) THEN ""
    ELSE IF d.kind = "array" \/ d.f[fields[i]] = Absent THEN fields[i]
    ELSE FirstMissing(d, fields, i + 1)

\* The first exception that building proof_data raises, "" when none does:
\* data['user_address'], then int(data[f]) for each numeric field in order.
RECURSIVE FirstFailure(_, _, _)
FirstFailure(d, fields, i) ==
    IF i > Len(fields) THEN ""
    ELSE IF i = 1
         THEN (IF d.f[fields[i]] = Absent THEN "KeyError"
               ELSE FirstFailure(d, fields, i + 1))
    ELSE IF ~PyInt(d.f[fields[i]]).ok THEN PyInt(d.f[fields[i]]).exc
    ELSE FirstFailure(d, fields, i + 1)

\* The mock proof_data of handle_generate_proof.
MockArtifact(d) ==
    [user_address |-> d.f.user_address,
     pool_id |-> PyInt(d.f.pool_id).n,
     user_balance |-> PyInt(d.f.user_balance).n,
     withdrawal_amount |-> PyInt(d.f.withdrawal_amount).n,
     pool_liquidity |-> PyInt(d.f.pool_liquidity).n,
     origin |-> "mock"]

\* ReadBody with one buffer for all connections: it holds what the client
\* that connected last has sent.
ReadBodyShared(c) ==
    IF queue # <<>> THEN conn[queue[Len(queue)]].req.body ELSE conn[c].req.body

\* What the handler reads from the connection of client c.
ReadBody(c) == conn[c].req.body

\* int(self.headers['Content-Length']), rfile.read, json.loads.
ParseError(body) ==
    CASE body.kind = "nolength" -> "TypeError"
      [] body.kind = "none" -> "TypeError"
      [] body.kind = "notjson" -> "JSONDecodeError"
      [] OTHER -> ""

Parse(path) ==
    /\ Serving("POST", path, "Received")
    /\ LET body == ReadBody(cur)
       IN IF ParseError(body) # ""
          THEN /\ exc' = ParseError(body)
               /\ pc' = "Except"
               /\ data' = data
          ELSE /\ data' = body
               /\ pc' = "Validating"
               /\ exc' = exc
    /\ UNCHANGED <<conn, queue, cur, art, emitted, seen, env>>

\* handle_generate_proof, lines 32-34.
GenParse == Parse("/api/generate-proof")

\* A write of send_error or of the success response raised inside the try
\* block: the except clause takes over.
AnswerInTry(sent, code) ==
    /\ conn' = [conn EXCEPT ![cur].wire = sent.wire]
    /\ emitted' = Append(emitted, code)
    /\ pc' = IF sent.ok THEN "Done" ELSE "Except"
    /\ exc' = IF sent.ok THEN exc ELSE "BrokenPipeError"

\* handle_generate_proof, lines 37-41.
GenValidate ==
    /\ Serving("POST", "/api/generate-proof", "Validating")
    /\ IF data.kind = "scalar"
       THEN /\ exc' = "TypeError"
            /\ pc' = "Except"
            /\ UNCHANGED <<conn, emitted>>
       ELSE IF FirstMissing(data, required_fields, 1) # ""
       THEN AnswerInTry(SendError(conn[cur].wire, conn[cur].req.brk, 400,
                                  <<"Missing required field",
                                    FirstMissing(data, required_fields, 1)>>),
                        400)
       ELSE /\ pc' = "Dispatching"
            /\ UNCHANGED <<conn, emitted, exc>>
    /\ UNCHANGED <<queue, cur, data, art, seen, env>>

\* handle_generate_proof, lines 44-56.
GenBuild ==
    /\ Serving("POST", "/api/generate-proof", "Dispatching")
    /\ IF FirstFailure(data, required_fields, 1) # ""
       THEN /\ exc' = FirstFailure(data, required_fields, 1)
            /\ pc' = "Except"
            /\ UNCHANGED <<art, seen>>
       ELSE /\ art' = MockArtifact(data)
            /\ pc' = "Responding"
            /\ seen' = [engine |-> engineUp, verifier |-> verifierUp, at |-> TRUE]
            /\ exc' = exc
    /\ UNCHANGED <<conn, queue, cur, data, emitted, env>>

\* handle_generate_proof, lines 58-65.
GenRespond ==
    /\ Serving("POST", "/api/generate-proof", "Responding")
    /\ AnswerInTry(SendJson(conn[cur].wire, conn[cur].req.brk, {"success", "data"},
                            art, Absent, FALSE, ""),
                   200)
    /\ UNCHANGED <<queue, cur, data, art, seen, env>>

\* except Exception as e: send_error(500, ...); an exception it raises
\* leaves the handler.
Except(path) ==
    /\ Serving("POST", path, "Except")
    /\ Answer(SendError(conn[cur].wire, conn[cur].req.brk, 500,
                        <<"Internal server error", exc>>),
              500, "Done")
    /\ UNCHANGED <<queue, cur, data, art, exc, seen, env>>

\* handle_generate_proof, lines 67-68.
GenExcept == Except("/api/generate-proof")

\* handle_verify_proof, lines 73-75.
VerParse == Parse("/api/verify-proof")

\* handle_verify_proof, lines 77-79.
VerValidate ==
    /\ Serving("POST", "/api/verify-proof", "Validating")
    /\ IF data.kind = "scalar"
       THEN /\ exc' = "TypeError"
            /\ pc' = "Except"
            /\ UNCHANGED <<conn, emitted>>
       ELSE IF FirstMissing(data, <<"proof_data">>, 1) # ""
       THEN AnswerInTry(SendError(conn[cur].wire, conn[cur].req.brk, 400,
                                  <<"Missing proof_data">>),
                        400)
       ELSE /\ pc' = "Dispatching"
            /\ UNCHANGED <<conn, emitted, exc>>
    /\ UNCHANGED <<queue, cur, data, art, seen, env>>

\* The values random.random() > 0.1 takes.
RandomDraw == BOOLEAN

\* handle_verify_proof, lines 81-95.
VerRespond ==
    /\ Serving("POST", "/api/verify-proof", "Dispatching")
    /\ \E is_valid \in RandomDraw :
          AnswerInTry(SendJson(conn[cur].wire, conn[cur].req.brk,
                               {"success", "valid", "data"}, NoArt,
                               data.f.proof_data, is_valid, ""),
                      200)
    /\ seen' = [engine |-> engineUp, verifier |-> verifierUp, at |-> TRUE]
    /\ UNCHANGED <<queue, cur, data, art, env>>

\* handle_verify_proof, lines 97-98.
VerExcept == Except("/api/verify-proof")

\* ---------------------------------------------------------- specifications
Handle ==
    \/ Accept
    \/ DoGET
    \/ PostNotFound
    \/ HandleHealth
    \/ GenParse
    \/ GenValidate
    \/ GenBuild
    \/ GenRespond
    \/ GenExcept
    \/ VerParse
    \/ VerValidate
    \/ VerRespond
    \/ VerExcept
    \/ Finish

\* Concurrent clients, a changing environment.
Next ==
    \/ \E c \in Clients : Submit(c)
    \/ \E c \in Clients : Collect(c)
    \/ EngineFlip
    \/ VerifierFlip
    \/ Handle

Spec == Init /\ [][Next]_vars

\* One connection at a time, every request.
NextAlone ==
    \/ \E c \in Clients : SubmitAlone(c)
    \/ \E c \in Clients : Collect(c)
    \/ Handle

SpecRequests == Init /\ [][NextAlone]_vars


\* ------------------------------------------------------------------ claims
IsPost(r, path) == r.method = "POST" /\ r.path = path

IsGen(r) == IsPost(r, "/api/generate-proof")

IsVer(r) == IsPost(r, "/api/verify-proof")

Fields == {required_fields[i] : i \in 1..Len(required_fields)}

MissingOf(r) == {f \in Fields : r.body.f[f] = Absent}

\* A generate-proof request whose body is a JSON object without some
\* required key.
LacksField(r) == IsGen(r) /\ r.body.kind = "object" /\ MissingOf(r) # {}

NonNegInt(v) == v.k = "int" /\ v.n >= 0

\* A ProofRequest of the data model: every field present, the numeric ones
\* non-negative integers, withdrawal_amount within balance and liquidity.
ValidGen(r) ==
    /\ IsGen(r)
    /\ r.body.kind = "object"
    /\ r.body.f.user_address.k = "text"
    /\ \A f \in NumericFields : NonNegInt(r.body.f[f])
    /\ r.body.f.withdrawal_amount.n <= r.body.f.user_balance.n
    /\ r.body.f.pool_liquidity.n >= r.body.f.withdrawal_amount.n

HeadsOf(w) == {i \in DOMAIN w : w[i].t = "head"}

BodiesOf(w) == {i \in DOMAIN w : w[i].t = "body"}

C2_OverdrawRejected ==
    \A c \in Clients :
        LET r == conn[c].req
            w == conn[c].wire
        IN (/\ IsGen(r)
            /\ r.body.kind = "object"
            /\ r.body.f.user_address.k = "text"
            /\ \A f \in NumericFields : NonNegInt(r.body.f[f])
            /\ r.body.f.pool_liquidity.n >= r.body.f.withdrawal_amount.n
            /\ r.body.f.withdrawal_amount.n > r.body.f.user_balance.n)
           => /\ \A i \in HeadsOf(w) : w[i].code = 400
              /\ \A i \in BodiesOf(w) : w[i].art = NoArt

\* C3: two verify-proof responses for the identical proof_data carry the
\* same valid flag.
C3_VerifyDeterministic ==
    \A c \in Clients : \A d \in Clients :
        LET rc == conn[c].req
            rd == conn[d].req
            wc == conn[c].wire
            wd == conn[d].wire
        IN (/\ IsVer(rc) /\ IsVer(rd)
            /\ rc.body.f.proof_data # Absent
            /\ rc.body.f.proof_data = rd.body.f.proof_data)
           => \A i \in BodiesOf(wc) : \A j \in BodiesOf(wd) :
                 (wc[i].ctype = "json" /\ wd[j].ctype = "json")
                    => wc[i].valid = wd[j].valid

\* C4: a valid generate-proof request handled while the proof engine is
\* unreachable is answered 503 and never gets a 200 with an artifact that
\* the engine did not produce.
C4_NoFabricatedArtifact ==
    (cur # 0 /\ ValidGen(conn[cur].req) /\ seen.at /\ ~seen.engine) =>
        /\ \A i \in HeadsOf(conn[cur].wire) : conn[cur].wire[i].code = 503
        /\ \A i \in BodiesOf(conn[cur].wire) : conn[cur].wire[i].art = NoArt
        /\ pc = "Done" => emitted = <<503>>

\* The status of the data model for the reachability of the two dependencies.
HealthOf(e, v) ==
    IF e /\ v THEN "healthy" ELSE IF e \/ v THEN "degraded" ELSE "unhealthy"

\* C5: the status of a health response is the one the reachability of the
\* proof engine and the verifier gives at the time of the request.
C5_HealthReflectsDependencies ==
    (/\ cur # 0
     /\ seen.at
     /\ conn[cur].req.path = "/api/health")
    => \A i \in BodiesOf(conn[cur].wire) :
          conn[cur].wire[i].status = HealthOf(seen.engine, seen.verifier)

\* C6: a generate-proof request that is no JSON, or that holds every field
\* with a numeric one negative or not coercible to an integer, is answered
\* 400: never 500, never 200 with an artifact.
C6_InvalidIs400 ==
    \A c \in Clients :
        LET r == conn[c].req
            w == conn[c].wire
        IN (/\ IsGen(r)
            /\ \/ r.body.kind = "notjson"
               \/ /\ r.body.kind = "object"
                  /\ MissingOf(r) = {}
                  /\ \E f \in NumericFields :
                        \/ r.body.f[f].k = "text"
                        \/ r.body.f[f].k = "int" /\ r.body.f[f].n < 0)
           => /\ \A i \in HeadsOf(w) : w[i].code = 400
              /\ \A i \in BodiesOf(w) : w[i].art = NoArt

\* C7: GET /api/health is answered 200 with a HealthStatus JSON body by the
\* health reporter, never by static-file serving.
C7_GetHealthRouted ==
    \A c \in Clients :
        LET r == conn[c].req
            w == conn[c].wire
        IN (r.method = "GET" /\ r.path = "/api/health")
           => /\ \A i \in HeadsOf(w) : w[i].code = 200 /\ w[i].ctype = "json"
              /\ \A i \in BodiesOf(w) :
                    /\ w[i].ctype = "json"
                    /\ w[i].keys = {"status", "timestamp", "version"}

\* C8: with any number of generate-proof requests in flight, a valid request
\* whose connection stays up gets exactly one response, a 200 whose artifact
\* holds the user_address and pool_id of that very request; an artifact on
\* any connection holds the fields of that connection's request, the handler
\* works on the body of the request it serves, and a connection the server
\* has not accepted has received nothing.
C8_ResponsesCorrelated ==
    /\ \A c \in Clients :
          LET r == conn[c].req
              w == conn[c].wire
          IN /\ (conn[c].st = "answered" /\ ValidGen(r) /\ r.brk = "never") =>
                   /\ Len(w) = 2
                   /\ w[1].t = "head" /\ w[1].code = 200
                   /\ w[2].t = "body" /\ w[2].art # NoArt
             /\ \A i \in BodiesOf(w) :
                   (IsGen(r) /\ w[i].art # NoArt) =>
                      /\ w[i].art.user_address = r.body.f.user_address
                      /\ JInt(w[i].art.pool_id) = r.body.f.pool_id
             /\ conn[c].st \in {"idle", "queued"} => w = <<>>
    /\ (cur # 0 /\ data # NoBody) => data = conn[cur].req.body
    /\ (cur # 0 /\ art # NoArt) =>
          /\ art.user_address = conn[cur].req.body.f.user_address
          /\ art.pool_id = PyInt(conn[cur].req.body.f.pool_id).n

\* C8 witness: two valid generate-proof requests of different users and
\* pools were in flight together and both are answered.
C8_Witness ==
    \E c \in Clients : \E d \in Clients :
        /\ conn[c].st = "answered" /\ conn[d].st = "answered"
        /\ ValidGen(conn[c].req) /\ ValidGen(conn[d].req)
        /\ conn[c].req.body.f.user_address # conn[d].req.body.f.user_address
        /\ conn[c].req.body.f.pool_id # conn[d].req.body.f.pool_id
        /\ Len(conn[c].wire) = 2 /\ Len(conn[d].wire) = 2
        /\ conn[c].wire[2].art.pool_id # conn[d].wire[2].art.pool_id

\* C9: every response body on /api/generate-proof and /api/verify-proof is a
\* JSON envelope with a success key that is true exactly for status 200, and
\* an error string whenever success is false.
C9_JsonEnvelope ==
    \A c \in Clients :
        LET r == conn[c].req
            w == conn[c].wire
        IN (IsGen(r) \/ IsVer(r)) =>
              \A i \in BodiesOf(w) :
                 /\ w[i].ctype = "json"
                 /\ "success" \in w[i].keys
                 /\ "data" \in w[i].keys
                 /\ i > 1
                 /\ w[i].success = (w[i - 1].code = 200)
                 /\ (~w[i].success => "error" \in w[i].keys)

\* The request has passed the checks the handler makes before it builds
\* anything: the body parsed and every required key is there.
PassedChecks(r) ==
    /\ ParseError(r.body) = ""
    /\ r.body.kind # "scalar"
    /\ IF IsGen(r) THEN FirstMissing(r.body, required_fields, 1) = ""
       ELSE FirstMissing(r.body, <<"proof_data">>, 1) = ""

\* C10: in the handler of a generate-proof or verify-proof request the
\* checks come before dispatch (nothing is built and no status line is out
\* while validating, a request that fails a check never reaches Dispatching)
\* and the response is sent exactly once: one status line per request, also
\* when a failure follows the 200 status line.
C10_ValidateThenRespondOnce ==
    (cur # 0 /\ (IsGen(conn[cur].req) \/ IsVer(conn[cur].req))) =>
        /\ pc \in {"Received", "Validating"} => art = NoArt /\ emitted = <<>>
        /\ pc \in {"Dispatching", "Responding"} => PassedChecks(conn[cur].req)
        /\ art # NoArt => PassedChecks(conn[cur].req)
        /\ Len(emitted) <= 1
        /\ pc = "Done" => Len(emitted) = 1

====
